---- MODULE Spec2Model ----
(***************************************************************************)
(* Model of the polyb orchestration services:                              *)
(*   call_orchestrator.py : parse_json, make_call, start_call              *)
(*   crm_connector.py     : EspoAPI.request, EspoCrmClient, push_to_crm    *)
(* The telephony endpoint and the CRM are external; they are modelled as   *)
(* the smallest stores that answer the requests the code sends them.       *)
(***************************************************************************)
EXTENDS Integers, Sequences, FiniteSets, Bags, TLC

VARIABLES
    call,      \* call[p]: one start_call invocation (its locals, its position)
    active,    \* telephony endpoint: number of outbound calls in progress
    push,      \* push[p]: one push_to_crm invocation
    contacts,  \* CRM: the Contact records, in creation order
    leads,     \* CRM: the Lead records, in creation order
    clock,     \* wall clock, in whole seconds
    flat       \* one use of parse_json: its input and what it returned

vars == <<call, active, push, contacts, leads, clock, flat>>

(***************************************************************************)
(* Bounds of the model                                                     *)
(***************************************************************************)
NumCallers == 2    \* start_call invocations
MaxPhoneLen == 10  \* longest phoneNumber string of an event
NumPushers == 2    \* push_to_crm invocations
MaxClock == 1      \* seconds the clock can advance
MaxWidth == 2      \* entries of the outer mapping or sequence given to parse_json

(***************************************************************************)
(* Scalars. A Python string is a sequence of characters; a value carries   *)
(* its JSON type, so that truthiness and slicing act as Python's do.       *)
(***************************************************************************)
None == [t |-> "null", s |-> <<>>]
Str(s) == [t |-> "str", s |-> s]
Num(s) == [t |-> "int", s |-> s]
Absent == [t |-> "absent", s |-> <<>>]   \* the key is not in the mapping

DigitChar == <<"1", "2", "3", "4", "5", "6", "7", "8", "9", "0">>
Digits(n) == [i \in 1..n |-> DigitChar[((i - 1) % 10) + 1]]

\* bool(v) of Python: None, "" and 0 are false
Truthy(v) == /\ v.t \notin {"null", "absent"}
             /\ v.s # <<>>
             /\ ~(v.t = "int" /\ v.s = <<"0">>)

\* `a or b` of Python
Or(a, b) == IF Truthy(a) THEN a ELSE b

(***************************************************************************)
(* JSON trees and parse_json                                               *)
(***************************************************************************)
Leaf(v) == [k |-> "leaf", v |-> v, items |-> <<>>]
Dict(items) == [k |-> "dict", v |-> None, items |-> items]
List(items) == [k |-> "list", v |-> None, items |-> items]
Entry(key, val) == [key |-> key, val |-> val]

EmptyMap == [x \in {} |-> None]
Put(m, key, v) == [x \in (DOMAIN m) \cup {key} |-> IF x = key THEN v ELSE m[x]]
\* dict.get(key): None when the key is missing
Get(m, key) == IF key \in DOMAIN m THEN m[key] ELSE None

\* a key that always gets the separator: f"{parent_key}.{key}"
DictKey_alwaysDot(parent_key, key) == parent_key \o <<".">> \o key

\* a list key without its index
ListKey_noIndex(parent_key, index) == parent_key \o <<"[", "]">>

\* A path string is the sequence of its pieces: "a.b" is <<"a", ".", "b">>.
DictKey(parent_key, key) ==
    IF parent_key # <<>> THEN parent_key \o <<".">> \o key ELSE key
ListKey(parent_key, index) == parent_key \o <<"[", ToString(index), "]">>

RECURSIVE parse_json(_, _, _)
RECURSIVE parse_items(_, _, _, _)
parse_json(data, parent_key, result) ==
    IF data.k \in {"dict", "list"}
    THEN parse_items(data, 1, parent_key, result)
    ELSE Put(result, parent_key, data.v)

\* the for loops of parse_json, from item i on (result is shared, mutated)
parse_items(data, i, parent_key, result) ==
    IF i > Len(data.items) THEN result
    ELSE LET new_key == IF data.k = "dict"
                        THEN DictKey(parent_key, data.items[i].key)
                        ELSE ListKey(parent_key, i - 1)
             item == IF data.k = "dict" THEN data.items[i].val ELSE data.items[i]
         IN parse_items(data, i + 1, parent_key, parse_json(item, new_key, result))

(***************************************************************************)
(* Inputs of parse_json: an outer mapping or sequence of up to MaxWidth     *)
(* entries, each a scalar, a one-entry mapping or a one-item sequence; the  *)
(* keys include strings that hold "." or "[0]", and the empty string.      *)
(***************************************************************************)
PlainKeys == {<<"a">>, <<"b">>}
Keys == PlainKeys \cup {<<"a", ".", "b">>, <<"a", "[", "0", "]">>, <<>>}
Leaves == {Leaf(Str(<<"x">>)), Leaf(Num(<<"1">>))}
Inner ==
    Leaves
    \cup {Dict(<<Entry(key, Leaf(Str(<<"y">>)))>>) : key \in PlainKeys}
    \cup {List(<<Leaf(Str(<<"y">>))>>)}

SeqsUpTo(S, n) == UNION {[1..m -> S] : m \in 0..n}
\* the entries of a Python dict: no key twice
ItemsUpTo(S, n) ==
    {e \in SeqsUpTo({Entry(key, val) : key \in Keys, val \in S}, n) :
        \A i, j \in 1..Len(e) : e[i].key = e[j].key => i = j}

Docs ==
    Leaves
    \cup {Dict(e) : e \in ItemsUpTo(Inner, MaxWidth)}
    \cup {List(e) : e \in SeqsUpTo(Inner, MaxWidth)}

\* a flat mapping as the dict it is
RECURSIVE ItemsOf(_, _)
ItemsOf(m, keys) ==
    IF keys = {} THEN <<>>
    ELSE LET key == CHOOSE k \in keys : TRUE
         IN <<Entry(key, Leaf(m[key]))>> \o ItemsOf(m, keys \ {key})
AsDict(m) == Dict(ItemsOf(m, DOMAIN m))

InitFlat == [pc |-> "idle", doc |-> Leaf(None), out |-> EmptyMap, again |-> EmptyMap]

\* parse_json(data)
Flatten ==
    /\ flat.pc = "input"
    /\ flat' = [flat EXCEPT !.pc = "flat", !.out = parse_json(flat.doc, <<>>, EmptyMap)]
    /\ UNCHANGED <<call, active, push, contacts, leads, clock>>

\* parse_json(parse_json(data))
Reflatten ==
    /\ flat.pc = "flat"
    /\ flat' = [flat EXCEPT !.pc = "again",
                            !.again = parse_json(AsDict(flat.out), <<>>, EmptyMap)]
    /\ UNCHANGED <<call, active, push, contacts, leads, clock>>

(***************************************************************************)
(* Events received by start_call                                           *)
(***************************************************************************)
\* the entries of a mapping whose value is present
RECURSIVE Present(_)
Present(items) ==
    IF items = <<>> THEN <<>>
    ELSE IF Head(items).val = Leaf(Absent) THEN Present(Tail(items))
    ELSE <<Head(items)>> \o Present(Tail(items))

Person(id, phoneNumber, createdById) ==
    Dict(Present(<<Entry(<<"id">>, Leaf(id)),
                   Entry(<<"phoneNumber">>, Leaf(phoneNumber)),
                   Entry(<<"createdById">>, Leaf(createdById))>>))

\* params of a bus call: {"result": {"crm_result": {"lead": {"lead": ..}, "contact": ..}}}
Params(ev) ==
    Dict(<<Entry(<<"result">>,
        Dict(<<Entry(<<"crm_result">>,
            Dict(<<Entry(<<"lead">>,
                       Dict(<<Entry(<<"lead">>, Person(ev.lid, ev.lph, ev.lcb))>>)),
                   Entry(<<"contact">>, Person(ev.cid, ev.cph, ev.ccb))>>))>>))>>)

Event(lid, lph, lcb, cid, cph, ccb) ==
    [lid |-> lid, lph |-> lph, lcb |-> lcb, cid |-> cid, cph |-> cph, ccb |-> ccb]

LeadId == Str(<<"L", "1">>)
LeadUser == Str(<<"U", "1">>)
ContactId == Str(<<"C", "1">>)
ContactUser == Str(<<"U", "2">>)
ContactPhone == Str(<<"7", "7", "7">>)
LongPhone == Str(Digits(MaxPhoneLen))
ShortPhone == Str(Digits(MaxPhoneLen - 2))
NumericPhone == Num(Digits(MaxPhoneLen))

\* lead-shaped events: the phoneNumber varies, or one field is missing
LeadEvents ==
    {Event(LeadId, ph, LeadUser, Absent, Absent, Absent) :
        ph \in {LongPhone, ShortPhone, NumericPhone, Str(<<>>), None, Absent}}
    \cup {Event(Absent, LongPhone, LeadUser, Absent, Absent, Absent),
          Event(LeadId, LongPhone, Absent, Absent, Absent, Absent)}
\* events that carry a contact
ContactEvents ==
    {Event(Absent, Absent, Absent, ContactId, ContactPhone, ContactUser),
     Event(LeadId, LongPhone, LeadUser, ContactId, ContactPhone, ContactUser),
     Event(LeadId, Str(<<>>), LeadUser, ContactId, ContactPhone, ContactUser)}
Events == LeadEvents \cup ContactEvents
NoEvent == Event(Absent, Absent, Absent, Absent, Absent, Absent)

(***************************************************************************)
(* start_call: the locals it computes from the event                       *)
(***************************************************************************)
LeadPath(field) == <<"crm_result", ".", "lead", ".", "lead", ".", field>>
ContactPath(field) == <<"crm_result", ".", "contact", ".", field>>

\* params.get('result', {})
ResultOf(params) ==
    LET hits == {i \in 1..Len(params.items) : params.items[i].key = <<"result">>}
    IN IF hits = {} THEN Dict(<<>>)
       ELSE params.items[CHOOSE i \in hits : TRUE].val

\* parse_json(result) of every event, computed once
ParsedEvents ==
    [ev \in Events \cup {NoEvent} |-> parse_json(ResultOf(Params(ev)), <<>>, EmptyMap)]

parsed_data(ev) == ParsedEvents[ev]

lead_id(ev) ==
    Or(Get(parsed_data(ev), LeadPath("id")), Get(parsed_data(ev), ContactPath("id")))
\* the contact-shaped path tried first
number_id_contactFirst(ev) ==
    Or(Get(parsed_data(ev), ContactPath("phoneNumber")),
       Get(parsed_data(ev), LeadPath("phoneNumber")))

number_id(ev) ==
    Or(Get(parsed_data(ev), LeadPath("phoneNumber")),
       Get(parsed_data(ev), ContactPath("phoneNumber")))
created_by_id(ev) ==
    Or(Get(parsed_data(ev), LeadPath("createdById")),
       Get(parsed_data(ev), ContactPath("createdById")))

\* a guard that forgets created_by_id
HasCallData_noCreatedBy(ev) ==
    Truthy(lead_id(ev)) /\ Truthy(number_id(ev))

\* the guard of line 94, negated: the invocation goes on
HasCallData(ev) ==
    Truthy(lead_id(ev)) /\ Truthy(number_id(ev)) /\ Truthy(created_by_id(ev))

(***************************************************************************)
(* make_call                                                               *)
(***************************************************************************)
NumberWidth == 9

\* number[:9], the first characters instead of the last
LastChars_first(s) ==
    IF Len(s) <= NumberWidth THEN s ELSE SubSeq(s, 1, NumberWidth)

\* number[-9:] of a string
LastChars(s) ==
    IF Len(s) <= NumberWidth THEN s ELSE SubSeq(s, Len(s) - NumberWidth + 1, Len(s))

StatusRequest == [action |-> "get_status", number |-> <<>>]
CallRequest(number) == [action |-> "call", number |-> number]

(***************************************************************************)
(* The telephony endpoint                                                  *)
(***************************************************************************)
NonIdle == {"busy", "ringing"}
\* what an answered status query can report
EndpointStatus == IF active > 0 THEN NonIdle ELSE {"idle"}
\* how a status query can end: answered; a JSON object without "status";
\* a network failure or a body that is not JSON; a JSON body that is no object;
\* an HTTP error response whose body is {"status": "error", ..} (the code does
\* not look at the HTTP status of this response: it reads the body)
StatusOutcomes == EndpointStatus \cup {"nokey", "exception", "notdict", "error"}

\* a gate that fails closed: a failed query counts as a busy endpoint
current_status_failClosed(status_response) ==
    IF status_response = "nokey" THEN "idle"
    ELSE IF status_response = "exception" THEN "busy"
    ELSE status_response

\* a gate that takes a ringing endpoint for a free one
current_status_ringing(status_response) ==
    IF status_response \in {"nokey", "exception", "ringing"} THEN "idle" ELSE status_response

\* status_response.get("status", "idle"), with the except branch of line 111
current_status(status_response) ==
    IF status_response \in {"nokey", "exception"} THEN "idle" ELSE status_response

Callers == 1..NumCallers

InitCall == [pc |-> "idle", ev |-> NoEvent, status_response |-> "none", sent |-> <<>>]

\* lines 85-108: flatten, resolve, validate; a valid request sends the status query
StartCall(p, ev) ==
    /\ call[p].pc = "idle"
    /\ call' = [call EXCEPT ![p] =
          IF HasCallData(ev)
          THEN [@ EXCEPT !.pc = "status", !.ev = ev, !.sent = Append(@, StatusRequest)]
          ELSE [@ EXCEPT !.pc = "done", !.ev = ev]]
    /\ UNCHANGED <<active, push, contacts, leads, clock, flat>>

\* lines 108-121 and 55-72: the status query ends; on "idle" make_call slices the
\* number and sends the call request
StatusReply(p, outcome) ==
    /\ call[p].pc = "status"
    /\ call' = [call EXCEPT ![p] =
          IF outcome = "notdict"
          THEN [@ EXCEPT !.pc = "raised", !.status_response = outcome]
          ELSE IF current_status(outcome) = "idle"
          THEN IF number_id(@.ev).t = "str"
               THEN [@ EXCEPT !.pc = "placing", !.status_response = outcome,
                              !.sent = Append(@, CallRequest(LastChars(number_id(call[p].ev).s)))]
               ELSE [@ EXCEPT !.pc = "raised", !.status_response = outcome]
          ELSE [@ EXCEPT !.pc = "done", !.status_response = outcome]]
    /\ UNCHANGED <<active, push, contacts, leads, clock, flat>>

\* lines 72-77: the endpoint answers the call request; placed, or failed and logged
CallReply(p, placed) ==
    /\ call[p].pc = "placing"
    /\ call' = [call EXCEPT ![p].pc = "done"]
    /\ active' = IF placed THEN active + 1 ELSE active
    /\ UNCHANGED <<push, contacts, leads, clock, flat>>

\* the endpoint: a call in progress ends
EndCall ==
    /\ active > 0
    /\ active' = active - 1
    /\ UNCHANGED <<call, push, contacts, leads, clock, flat>>

(***************************************************************************)
(* The CRM: Contact and Lead stores behind the REST API                    *)
(***************************************************************************)
Pushers == 1..NumPushers

PushParams ==
    {[firstName |-> "Ann", lastName |-> "Lee", phoneNumber |-> "555-01"],
     [firstName |-> "Bob", lastName |-> "Lee", phoneNumber |-> "555-01"],
     [firstName |-> "Ann", lastName |-> "Lee", phoneNumber |-> "555-02"]}
NoParams == [firstName |-> "", lastName |-> "", phoneNumber |-> ""]

NoContact == [id |-> 0, firstName |-> "", lastName |-> "", phoneNumber |-> ""]

\* GET Contact with where[0]: type equals, attribute phoneNumber, value phone_number
RECURSIVE Matching(_, _)
Matching(list, phone_number) ==
    IF list = <<>> THEN <<>>
    ELSE IF Head(list).phoneNumber = phone_number
         THEN <<Head(list)>> \o Matching(Tail(list), phone_number)
         ELSE Matching(Tail(list), phone_number)

\* the body of a 200 answer to the lookup: {"total": n, "list": [...]}
LookupData(phone_number) ==
    [total |-> Len(Matching(contacts, phone_number)),
     list |-> Matching(contacts, phone_number)]

\* the record the CRM stores for a Contact request
NewContact(payload) ==
    [id |-> Len(contacts) + 1, firstName |-> payload.firstName,
     lastName |-> payload.lastName, phoneNumber |-> payload.phoneNumber]

(***************************************************************************)
(* EspoCrmClient: the requests it sends                                    *)
(***************************************************************************)
\* line 120: payload has no 'name', so the name is "Lead - <YYYYmmddHHMMSS>"
LeadName(now) == <<"Lead", " - ", ToString(now)>>

LookupRequest(phone_number) ==
    [kind |-> "lookup", name |-> <<>>, firstName |-> "", lastName |-> "",
     phoneNumber |-> phone_number]
ContactRequest(p) ==
    [kind |-> "contact", name |-> <<p.firstName, " ", p.lastName>>,
     firstName |-> p.firstName, lastName |-> p.lastName, phoneNumber |-> p.phoneNumber]
LeadRequest(p, now) ==
    [kind |-> "lead", name |-> LeadName(now),
     firstName |-> p.firstName, lastName |-> p.lastName, phoneNumber |-> p.phoneNumber]

\* what push_to_crm returns: the top-level status, and under crm_result the
\* workflow status, the contact (found, or created) and the lead outcome
NoResult == [status |-> "none", crm_status |-> "none", contact |-> NoContact,
             contact_status |-> "none", lead_status |-> "none"]

\* replies: how each request sent so far was answered, in order
InitPush == [pc |-> "idle", params |-> NoParams, sent |-> <<>>, replies |-> <<>>,
             total |-> -1, result |-> NoResult]

\* lines 176-184, 147-154: push_to_crm calls get_contact, which sends the lookup
StartPush(p, params) ==
    /\ push[p].pc = "idle"
    /\ push' = [push EXCEPT ![p] =
          [@ EXCEPT !.pc = "lookup", !.params = params,
                    !.sent = Append(@, LookupRequest(params.phoneNumber))]]
    /\ UNCHANGED <<call, active, contacts, leads, clock, flat>>

\* a lookup branch that also creates a contact when one match is found
AfterLookup_offByOne(rec, outcome, data, now) ==
    IF outcome = "fail"
    THEN [rec EXCEPT !.pc = "done", !.replies = Append(@, outcome),
                     !.result = [@ EXCEPT !.status = "pushed", !.crm_status = "error"]]
    ELSE IF outcome = "malformed"
    THEN [rec EXCEPT !.pc = "done", !.replies = Append(@, outcome),
                     !.result = [@ EXCEPT !.status = "error"]]
    ELSE IF data.total <= 1
    THEN [rec EXCEPT !.pc = "contact", !.replies = Append(@, outcome),
                     !.total = data.total,
                     !.sent = Append(@, ContactRequest(rec.params))]
    ELSE [rec EXCEPT !.pc = "lead", !.replies = Append(@, outcome),
                     !.total = data.total,
                     !.result = [@ EXCEPT !.contact = data.list[1]],
                     !.sent = Append(@, LeadRequest(rec.params, now))]

\* a lookup whose failure goes up to push_to_crm instead of being caught
AfterLookup_failTop(rec, outcome, data, now) ==
    IF outcome \in {"fail", "malformed"}
    THEN [rec EXCEPT !.pc = "done", !.replies = Append(@, outcome),
                     !.result = [@ EXCEPT !.status = "error"]]
    ELSE IF data.total = 0
    THEN [rec EXCEPT !.pc = "contact", !.replies = Append(@, outcome),
                     !.total = data.total,
                     !.sent = Append(@, ContactRequest(rec.params))]
    ELSE [rec EXCEPT !.pc = "lead", !.replies = Append(@, outcome),
                     !.total = data.total,
                     !.result = [@ EXCEPT !.contact = data.list[1]],
                     !.sent = Append(@, LeadRequest(rec.params, now))]

\* the workflow status after the lookup, by its outcome: "ok" is a 200 answer
\* with {"total", "list"}; "fail" a non-200 answer or an empty body (EspoAPIError,
\* caught at line 156); "malformed" a 200 answer whose JSON is no object
\* (data.get raises in get_contact, caught at line 187)
AfterLookup(rec, outcome, data, now) ==
    IF outcome = "fail"
    THEN [rec EXCEPT !.pc = "done", !.replies = Append(@, outcome),
                     !.result = [@ EXCEPT !.status = "pushed", !.crm_status = "error"]]
    ELSE IF outcome = "malformed"
    THEN [rec EXCEPT !.pc = "done", !.replies = Append(@, outcome),
                     !.result = [@ EXCEPT !.status = "error"]]
    ELSE IF data.total = 0
    THEN [rec EXCEPT !.pc = "contact", !.replies = Append(@, outcome),
                     !.total = data.total,
                     !.sent = Append(@, ContactRequest(rec.params))]
    ELSE [rec EXCEPT !.pc = "lead", !.replies = Append(@, outcome),
                     !.total = data.total,
                     !.result = [@ EXCEPT !.contact = data.list[1]],
                     !.sent = Append(@, LeadRequest(rec.params, now))]

\* lines 154-171: the lookup ends
LookupReply(p, outcome) ==
    /\ push[p].pc = "lookup"
    /\ push' = [push EXCEPT ![p] =
          AfterLookup(@, outcome, LookupData(@.params.phoneNumber), clock)]
    /\ UNCHANGED <<call, active, contacts, leads, clock, flat>>

\* a create_contact whose failure is not checked: the lead is sent anyway
AfterContact_unchecked(rec, ok, created, now) ==
    [rec EXCEPT !.pc = "lead", !.replies = Append(@, IF ok THEN "ok" ELSE "fail"),
                !.result = [@ EXCEPT !.contact = created,
                                     !.contact_status = IF ok THEN "success" ELSE "error"],
                !.sent = Append(@, LeadRequest(rec.params, now))]

\* lines 164-167: create_contact ends; on success create_lead sends the lead
AfterContact(rec, ok, created, now) ==
    IF ok
    THEN [rec EXCEPT !.pc = "lead", !.replies = Append(@, "ok"),
                     !.result = [@ EXCEPT !.contact = created, !.contact_status = "success"],
                     !.sent = Append(@, LeadRequest(rec.params, now))]
    ELSE [rec EXCEPT !.pc = "done", !.replies = Append(@, "fail"),
                     !.result = [@ EXCEPT !.status = "pushed", !.crm_status = "error",
                                          !.contact_status = "error"]]

ContactReply(p, ok) ==
    /\ push[p].pc = "contact"
    /\ push' = [push EXCEPT ![p] =
          AfterContact(@, ok, NewContact(ContactRequest(@.params)), clock)]
    /\ contacts' = IF ok THEN Append(contacts, NewContact(ContactRequest(push[p].params)))
                         ELSE contacts
    /\ UNCHANGED <<call, active, leads, clock, flat>>

\* a create_lead that sends the request again when it failed
AfterLead_retry(rec, ok) ==
    IF ok
    THEN [rec EXCEPT !.pc = "done", !.replies = Append(@, "ok"),
                     !.result = [@ EXCEPT !.status = "pushed",
                                          !.crm_status = IF rec.total = 0 THEN "created" ELSE "success",
                                          !.lead_status = "success"]]
    ELSE [rec EXCEPT !.replies = Append(@, "fail"),
                     !.sent = Append(@, rec.sent[Len(rec.sent)])]

\* a workflow that reports "success" on both branches
AfterLead_success(rec, ok) ==
    [rec EXCEPT !.pc = "done", !.replies = Append(@, IF ok THEN "ok" ELSE "fail"),
                !.result = [@ EXCEPT !.status = "pushed",
                                     !.crm_status = "success",
                                     !.lead_status = IF ok THEN "success" ELSE "error"]]

\* a create_lead that reports success whatever the CRM answered
AfterLead_okAlways(rec, ok) ==
    [rec EXCEPT !.pc = "done", !.replies = Append(@, IF ok THEN "ok" ELSE "fail"),
                !.result = [@ EXCEPT !.status = "pushed",
                                     !.crm_status = IF rec.total = 0 THEN "created" ELSE "success",
                                     !.lead_status = "success"]]

\* lines 122-128, 168, 172, 186: create_lead ends, get_contact and push_to_crm return
AfterLead(rec, ok) ==
    [rec EXCEPT !.pc = "done", !.replies = Append(@, IF ok THEN "ok" ELSE "fail"),
                !.result = [@ EXCEPT !.status = "pushed",
                                     !.crm_status = IF rec.total = 0 THEN "created" ELSE "success",
                                     !.lead_status = IF ok THEN "success" ELSE "error"]]

LeadReply(p, ok) ==
    /\ push[p].pc = "lead"
    /\ push' = [push EXCEPT ![p] = AfterLead(@, ok)]
    /\ leads' = IF ok THEN leads (+) SetToBag({push[p].sent[Len(push[p].sent)]}) ELSE leads
    /\ UNCHANGED <<call, active, contacts, clock, flat>>

\* a second passes
Tick ==
    /\ clock < MaxClock
    /\ clock' = clock + 1
    /\ UNCHANGED <<call, active, push, contacts, leads, flat>>

(***************************************************************************)
(* Specifications. The two services are separate processes that share no   *)
(* state: each is checked on its own.                                      *)
(***************************************************************************)
Init ==
    /\ call = [p \in Callers |-> InitCall]
    /\ active = 0
    /\ push = [p \in Pushers |-> InitPush]
    /\ contacts = <<>>
    /\ leads = EmptyBag
    /\ clock = 0
    /\ flat = InitFlat

CallNext ==
    \/ \E p \in Callers, ev \in Events : StartCall(p, ev)
    \/ \E p \in Callers, outcome \in StatusOutcomes : StatusReply(p, outcome)
    \/ \E p \in Callers, placed \in BOOLEAN : CallReply(p, placed)
    \/ EndCall

CallSpec == Init /\ [][CallNext]_vars

CrmNext ==
    \/ \E p \in Pushers, params \in PushParams : StartPush(p, params)
    \/ \E p \in Pushers, outcome \in {"ok", "fail", "malformed"} : LookupReply(p, outcome)
    \/ \E p \in Pushers, ok \in BOOLEAN : ContactReply(p, ok)
    \/ \E p \in Pushers, ok \in BOOLEAN : LeadReply(p, ok)
    \/ Tick

CrmSpec == Init /\ [][CrmNext]_vars

\* start_call invocations that do not overlap: one begins when none is under way
StartCallAlone(p, ev) ==
    /\ \A q \in Callers : call[q].pc \in {"idle", "done", "raised"}
    /\ StartCall(p, ev)

SeqNext ==
    \/ \E p \in Callers, ev \in Events : StartCallAlone(p, ev)
    \/ \E p \in Callers, outcome \in StatusOutcomes : StatusReply(p, outcome)
    \/ \E p \in Callers, placed \in BOOLEAN : CallReply(p, placed)
    \/ EndCall

SeqSpec == Init /\ [][SeqNext]_vars

\* parse_json on its own, on every input of Docs
FlatInit ==
    /\ call = [p \in Callers |-> InitCall]
    /\ active = 0
    /\ push = [p \in Pushers |-> InitPush]
    /\ contacts = <<>>
    /\ leads = EmptyBag
    /\ clock = 0
    /\ flat \in {[InitFlat EXCEPT !.pc = "input", !.doc = d] : d \in Docs}

FlatNext == Flatten \/ Reflatten

FlatSpec == FlatInit /\ [][FlatNext]_vars

\* one invocation of each operation, the two services side by side
PairNext ==
    \/ \E ev \in Events : StartCall(1, ev)
    \/ \E outcome \in StatusOutcomes : StatusReply(1, outcome)
    \/ \E placed \in BOOLEAN : CallReply(1, placed)
    \/ EndCall
    \/ \E params \in PushParams : StartPush(1, params)
    \/ \E outcome \in {"ok", "fail", "malformed"} : LookupReply(1, outcome)
    \/ \E ok \in BOOLEAN : ContactReply(1, ok)
    \/ \E ok \in BOOLEAN : LeadReply(1, ok)
    \/ Tick

PairSpec == Init /\ [][PairNext]_vars

(***************************************************************************)
(* Properties of start_call (checked under CallSpec)                       *)
(***************************************************************************)
\* the call-placement requests an invocation has issued
CallRequests(p) == SelectSeq(call[p].sent, LAMBDA r : r.action = "call")
StatusRequests(p) == SelectSeq(call[p].sent, LAMBDA r : r.action = "get_status")

\* every status query so far was answered with the endpoint's status
EndpointReports == \A p \in Callers : call[p].status_response \in {"none", "idle"} \cup NonIdle

\* C1: against an endpoint that reports a non-idle status from the moment a call
\* is placed until it ends, at most one outbound call is active at any time,
\* whatever the interleaving of the start_call invocations.
C1_AtMostOneActiveCall == EndpointReports => active <= 1

\* a field has a value: a non-empty scalar
HasValue(v) == v.t \in {"str", "int"} /\ v.s # <<>> /\ v # Num(<<"0">>)

\* the event carries the three fields under the lead-shaped paths, its
\* phoneNumber a string
LeadShaped(ev) ==
    HasValue(ev.lid) /\ HasValue(ev.lph) /\ HasValue(ev.lcb) /\ ev.lph.t = "str"

\* number is the last NumberWidth characters of phone (all of a shorter phone)
IsTail(number, phone) ==
    /\ Len(number) = (IF Len(phone) <= NumberWidth THEN Len(phone) ELSE NumberWidth)
    /\ \A i \in 1..Len(number) : number[i] = phone[Len(phone) - Len(number) + i]

\* C2: for an event with leadId, phoneNumber and createdById under the
\* lead-shaped paths and a status query answered "idle", the invocation issues
\* exactly one call-placement request, for the last 9 characters of the
\* event's phoneNumber (the whole number when it is no longer than that).
C2_OneCallLastNine ==
    \A p \in Callers :
        (LeadShaped(call[p].ev) /\ call[p].status_response = "idle")
        => /\ Len(CallRequests(p)) = 1
           /\ IsTail(CallRequests(p)[1].number, call[p].ev.lph.s)

C2_Witness ==
    \E p \in Callers :
        /\ call[p].pc = "done" /\ call[p].status_response = "idle"
        /\ LeadShaped(call[p].ev) /\ Len(call[p].ev.lph.s) > NumberWidth
        /\ Len(CallRequests(p)) = 1
        /\ Len(CallRequests(p)[1].number) = NumberWidth

\* C11: every start_call invocation completes without raising to its caller,
\* whatever the event's scalar values and whatever the endpoint answers.
C11_NeverRaises == \A p \in Callers : call[p].pc # "raised"

\* neither path gives the field a value
Unresolved(lead_value, contact_value) == ~HasValue(lead_value) /\ ~HasValue(contact_value)
MissingField(ev) ==
    \/ Unresolved(ev.lid, ev.cid)
    \/ Unresolved(ev.lph, ev.cph)
    \/ Unresolved(ev.lcb, ev.ccb)

\* C3: when leadId, phoneNumber or createdById is absent after alias
\* resolution, the invocation issues no request to the telephony endpoint:
\* no status query, no call placement.
C3_MissingFieldNoRequest ==
    \A p \in Callers :
        (call[p].pc # "idle" /\ MissingField(call[p].ev)) => call[p].sent = <<>>

C3_Witness ==
    \E p \in Callers :
        /\ call[p].pc = "done" /\ call[p].sent = <<>>
        /\ HasValue(call[p].ev.lid) /\ HasValue(call[p].ev.lph)
        /\ Unresolved(call[p].ev.lcb, call[p].ev.ccb)

\* C4: when the status query returns a status other than "idle", the
\* invocation issues no call-placement request.
C4_NonIdleNoCall ==
    \A p \in Callers :
        (call[p].status_response \notin {"none", "idle", "nokey", "exception", "notdict"})
        => CallRequests(p) = <<>>

C4_Witness ==
    \E p \in Callers :
        /\ call[p].pc = "done" /\ call[p].status_response = "ringing"
        /\ Len(StatusRequests(p)) = 1 /\ CallRequests(p) = <<>>

\* what resolution gives a field: the lead-shaped value when there is one
\* (not missing, null or empty), otherwise the contact-shaped value when there
\* is one
ResolvesTo(resolved, lead_value, contact_value) ==
    /\ HasValue(lead_value) => resolved = lead_value
    /\ (~HasValue(lead_value) /\ HasValue(contact_value)) => resolved = contact_value

ContactOnly(ev) ==
    /\ ev.lid = Absent /\ ev.lph = Absent /\ ev.lcb = Absent
    /\ HasValue(ev.cid) /\ HasValue(ev.cph) /\ HasValue(ev.ccb)

\* C19: start_call resolves leadId, phoneNumber and createdById each from the
\* lead-shaped path first and from the contact-shaped path only when the
\* lead-shaped path gives no value: with both a lead-shaped and a
\* contact-shaped phoneNumber the number dialed is the lead-shaped one, and an
\* event with the three fields under the contact-shaped paths only is a valid
\* call request (it gets its status query, and its call on "idle").
C19_LeadPathFirst ==
    \A p \in Callers :
        LET ev == call[p].ev
            phone == IF HasValue(ev.lph) THEN ev.lph ELSE ev.cph
        IN call[p].pc # "idle" =>
            /\ ResolvesTo(lead_id(ev), ev.lid, ev.cid)
            /\ ResolvesTo(number_id(ev), ev.lph, ev.cph)
            /\ ResolvesTo(created_by_id(ev), ev.lcb, ev.ccb)
            /\ CallRequests(p) # <<>>
               => /\ phone.t = "str"
                  /\ IsTail(CallRequests(p)[1].number, phone.s)
            /\ ContactOnly(ev)
               => /\ Len(StatusRequests(p)) = 1
                  /\ call[p].status_response = "idle" => Len(CallRequests(p)) = 1

\* one invocation dialed the lead-shaped number of an event that also carries
\* a contact-shaped one, another dialed the number of a contact-only event
C19_Witness ==
    \E p, q \in Callers :
        /\ HasValue(call[p].ev.lph) /\ HasValue(call[p].ev.cph)
        /\ call[p].ev.lph # call[p].ev.cph
        /\ Len(CallRequests(p)) = 1
        /\ IsTail(CallRequests(p)[1].number, call[p].ev.lph.s)
        /\ ContactOnly(call[q].ev)
        /\ Len(CallRequests(q)) = 1
        /\ CallRequests(q)[1].number = call[q].ev.cph.s

\* the status query failed: a network error or a body that is not JSON, or an
\* HTTP error response with a JSON object for a body
QueryFailed(p) == call[p].status_response \in {"exception", "nokey", "error"}

\* C15: when the status query fails (network error, HTTP error response) the
\* invocation takes the status for "idle" and issues a call-placement request,
\* also while a call is active on the endpoint.
C15_FailsOpen ==
    \A p \in Callers :
        (QueryFailed(p) /\ number_id(call[p].ev).t = "str")
        => Len(CallRequests(p)) = 1

\* C15, amended: when the status query raises (network error, a body that is
\* not JSON) or returns a JSON object without "status", the invocation takes
\* the status for "idle" and goes on to make_call, which issues a
\* call-placement request for a string phoneNumber (and raises for any other),
\* also while a call is active; the HTTP status of the response is not looked
\* at, so an error response whose body carries a "status" other than "idle"
\* leads to no call-placement request.
C15_FailsOpenOnException ==
    \A p \in Callers :
        /\ call[p].status_response \in {"exception", "nokey"}
           => IF number_id(call[p].ev).t = "str"
              THEN Len(CallRequests(p)) = 1
              ELSE call[p].pc = "raised" /\ CallRequests(p) = <<>>
        /\ call[p].status_response = "error" => CallRequests(p) = <<>>

\* the query failed while another invocation's call was active
C15_Witness ==
    \E p \in Callers :
        /\ call[p].status_response = "exception"
        /\ call[p].pc = "placing" /\ Len(CallRequests(p)) = 1
        /\ active >= 1

(***************************************************************************)
(* Properties of start_call, one invocation after the other (SeqSpec)      *)
(***************************************************************************)
\* C16: when the invocations do not overlap, every status query succeeds
\* and the endpoint reports non-idle while a call is active, at most one
\* outbound call is active at any time.
C16_SerialAtMostOne == EndpointReports => active <= 1

\* a second invocation found the first one's call active and placed none
C16_Witness ==
    \E p, q \in Callers :
        /\ EndpointReports /\ active = 1
        /\ call[p].pc = "done" /\ Len(CallRequests(p)) = 1
        /\ call[q].pc = "done" /\ call[q].status_response \in NonIdle
        /\ CallRequests(q) = <<>>

(***************************************************************************)
(* Properties of push_to_crm (checked under CrmSpec)                       *)
(***************************************************************************)
\* the requests of one kind an invocation has issued
Requests(p, kind) == SelectSeq(push[p].sent, LAMBDA r : r.kind = kind)

\* the reply to the invocation's n-th request, "none" while there is none
Reply(p, n) == IF n <= Len(push[p].replies) THEN push[p].replies[n] ELSE "none"

\* the lookup was answered with a listing of zero contacts / of some contacts
FoundNone(p) == Reply(p, 1) = "ok" /\ push[p].total = 0
FoundSome(p) == Reply(p, 1) = "ok" /\ push[p].total >= 1

\* C5: the CRM holds at most one contact per phone number, whatever the
\* interleaving of the push_to_crm invocations.
C5_OneContactPerPhone ==
    \A i, j \in 1..Len(contacts) :
        contacts[i].phoneNumber = contacts[j].phoneNumber => i = j

\* C6: a lookup that reports zero contacts leads to exactly one
\* contact-create request, exactly one lead-create request and the workflow
\* status "created".
C6_ZeroMatchesCreatesBoth ==
    \A p \in Pushers :
        (push[p].pc = "done" /\ FoundNone(p))
        => /\ Len(Requests(p, "contact")) = 1
           /\ Len(Requests(p, "lead")) = 1
           /\ push[p].result.crm_status = "created"

\* C6, amended: a lookup that reports zero contacts leads to exactly one
\* contact-create request; when that request succeeds, to exactly one
\* lead-create request and the workflow status "created"; when it fails, to no
\* lead-create request and the workflow status "error".
C6_ZeroMatchesAmended ==
    \A p \in Pushers :
        (push[p].pc = "done" /\ FoundNone(p))
        => /\ Len(Requests(p, "contact")) = 1
           /\ Reply(p, 2) = "ok" =>
                  /\ Len(Requests(p, "lead")) = 1
                  /\ push[p].result.crm_status = "created"
           /\ Reply(p, 2) = "fail" =>
                  /\ Len(Requests(p, "lead")) = 0
                  /\ push[p].result.crm_status = "error"

C6_Witness ==
    \E p \in Pushers :
        /\ push[p].pc = "done" /\ FoundNone(p) /\ Reply(p, 2) = "ok"
        /\ Len(Requests(p, "contact")) = 1 /\ Len(Requests(p, "lead")) = 1
        /\ push[p].result.crm_status = "created"

\* the first contact the CRM holds for a phone number
IsFirstMatch(contact, phone_number) ==
    \E i \in 1..Len(contacts) :
        /\ contacts[i] = contact
        /\ contact.phoneNumber = phone_number
        /\ \A j \in 1..(i - 1) : contacts[j].phoneNumber # phone_number

\* C7: a lookup that reports one or more contacts leads to no contact-create
\* request, exactly one lead-create request and the workflow status "success",
\* and the result carries the first contact of the lookup's list, unchanged.
C7_MatchReusesFirstContact ==
    \A p \in Pushers :
        (push[p].pc = "done" /\ FoundSome(p))
        => /\ Len(Requests(p, "contact")) = 0
           /\ Len(Requests(p, "lead")) = 1
           /\ push[p].result.crm_status = "success"
           /\ IsFirstMatch(push[p].result.contact, push[p].params.phoneNumber)

\* the contact reused was created for another person, and is returned as stored
C7_Witness ==
    \E p \in Pushers :
        /\ push[p].pc = "done" /\ FoundSome(p)
        /\ push[p].result.crm_status = "success"
        /\ Len(Requests(p, "lead")) = 1
        /\ push[p].result.contact.firstName # push[p].params.firstName
        /\ IsFirstMatch(push[p].result.contact, push[p].params.phoneNumber)

\* the CRM answered one of the invocation's requests with a non-200 status
SomeStepFailed(p) == \E n \in 1..Len(push[p].replies) : push[p].replies[n] = "fail"

\* C8: when the CRM answers a sub-step (lookup, contact creation, lead
\* creation) with a non-200 status, push_to_crm returns a result whose status
\* is "error", and raises nothing.
C8_FailureReturnsError ==
    \A p \in Pushers :
        (push[p].pc = "done" /\ SomeStepFailed(p)) => push[p].result.status = "error"

\* C8, amended: when the CRM answers a sub-step with a non-200 status,
\* push_to_crm raises nothing and returns the status "pushed"; the failure is
\* carried inside crm_result: as crm_result.status "error" when the lookup or
\* the contact creation failed, as crm_result.lead.status "error" (under a
\* crm_result.status of "created" or "success") when the lead creation failed.
C8_FailureIsNested ==
    \A p \in Pushers :
        (push[p].pc = "done" /\ SomeStepFailed(p))
        => /\ push[p].result.status = "pushed"
           /\ IF Len(Requests(p, "lead")) = 0
              THEN push[p].result.crm_status = "error"
              ELSE /\ push[p].result.crm_status \in {"created", "success"}
                   /\ push[p].result.lead_status = "error"

C8_Witness ==
    \E p \in Pushers :
        /\ push[p].pc = "done"
        /\ Len(Requests(p, "lead")) = 1 /\ Reply(p, Len(push[p].sent)) = "fail"
        /\ push[p].result.status = "pushed"
        /\ push[p].result.lead_status = "error"

\* the workflow raised: a reply it could not read made get_contact raise
WorkflowRaised(p) == \E n \in 1..Len(push[p].replies) : push[p].replies[n] = "malformed"

\* C17: push_to_crm returns the top-level status "pushed" whenever the contact
\* workflow returns a result, whose status ("created", "success" or "error") is
\* nested under crm_result; it returns the top-level status "error" only when
\* the workflow raises, and never any other top-level status.
C17_TopLevelStatus ==
    \A p \in Pushers :
        IF push[p].pc # "done" THEN push[p].result.status = "none"
        ELSE IF WorkflowRaised(p)
        THEN push[p].result.status = "error" /\ push[p].result.crm_status = "none"
        ELSE /\ push[p].result.status = "pushed"
             /\ push[p].result.crm_status \in {"created", "success", "error"}

\* one invocation returned "pushed" over a workflow status of "error", another
\* returned "error" because the workflow raised
C17_Witness ==
    \E p, q \in Pushers :
        /\ push[p].pc = "done" /\ SomeStepFailed(p)
        /\ push[p].result.status = "pushed" /\ push[p].result.crm_status = "error"
        /\ push[q].pc = "done" /\ WorkflowRaised(q)
        /\ push[q].result.status = "error"

\* C9: every push_to_crm invocation issues exactly one lead-create request,
\* whatever the outcome of its lookup and of its contact creation.
C9_AlwaysOneLead ==
    \A p \in Pushers : push[p].pc = "done" => Len(Requests(p, "lead")) = 1

\* the steps before the lead creation went through: the lookup returned a
\* listing and the contact creation, when there was one, succeeded
ReachedLead(p) == Reply(p, 1) = "ok" /\ (push[p].total = 0 => Reply(p, 2) = "ok")

\* C9, amended: an invocation whose lookup returns a listing and whose contact
\* creation, when one is needed, succeeds issues exactly one lead-create
\* request; an invocation whose lookup or contact creation fails issues none.
C9_OneLeadUnlessFailed ==
    \A p \in Pushers :
        /\ Len(Requests(p, "lead")) <= 1
        /\ push[p].pc = "done" =>
               Len(Requests(p, "lead")) = (IF ReachedLead(p) THEN 1 ELSE 0)

C9_Witness ==
    \E p, q \in Pushers :
        /\ push[p].pc = "done" /\ ReachedLead(p) /\ Len(Requests(p, "lead")) = 1
        /\ push[q].pc = "done" /\ Reply(q, 1) = "fail" /\ Len(Requests(q, "lead")) = 0

SamePerson(a, b) ==
    /\ a.firstName = b.firstName
    /\ a.lastName = b.lastName
    /\ a.phoneNumber = b.phoneNumber

\* C10: two lead-create requests issued for the same person carry distinct
\* lead names, also within one clock second.
C10_DistinctLeadNames ==
    \A p, q \in Pushers :
        (p # q /\ Requests(p, "lead") # <<>> /\ Requests(q, "lead") # <<>>
               /\ SamePerson(Requests(p, "lead")[1], Requests(q, "lead")[1]))
        => Requests(p, "lead")[1].name # Requests(q, "lead")[1].name

(***************************************************************************)
(* Properties of both operations (checked under PairSpec)                  *)
(***************************************************************************)
\* C12: no request is repeated within one invocation: start_call issues at
\* most one status query and at most one call placement, push_to_crm at most
\* one lookup, one contact-create and one lead-create, also when a request fails.
C12_NoRetry ==
    /\ \A p \in Callers :
           Len(StatusRequests(p)) <= 1 /\ Len(CallRequests(p)) <= 1
    /\ \A p \in Pushers :
           \A kind \in {"lookup", "contact", "lead"} : Len(Requests(p, kind)) <= 1

\* both invocations ended after a failed request, each request sent once
C12_Witness ==
    /\ call[1].pc = "done" /\ call[1].status_response = "exception"
    /\ Len(StatusRequests(1)) = 1 /\ Len(CallRequests(1)) = 1
    /\ push[1].pc = "done" /\ Reply(1, 3) = "fail"
    /\ Len(Requests(1, "lookup")) = 1 /\ Len(Requests(1, "contact")) = 1
    /\ Len(Requests(1, "lead")) = 1

\* the places in an invocation's requests where one of this kind stands
Places(p, kind) == {i \in 1..Len(push[p].sent) : push[p].sent[i].kind = kind}

\* C18: within one invocation the requests are ordered: a call placement comes
\* after the invocation's own status query has returned or failed; a
\* contact-create after the lookup returned a total of zero; a lead-create
\* after the lookup succeeded and, with zero matches, after the contact-create
\* succeeded.
C18_RequestOrder ==
    /\ \A p \in Callers :
           \A i \in 1..Len(call[p].sent) :
               call[p].sent[i].action = "call"
               => /\ call[p].status_response # "none"
                  /\ \E j \in 1..(i - 1) : call[p].sent[j].action = "get_status"
    /\ \A p \in Pushers :
           /\ \A i \in Places(p, "contact") :
                  /\ Places(p, "lookup") = 1..(i - 1)
                  /\ Reply(p, 1) = "ok" /\ push[p].total = 0
           /\ \A i \in Places(p, "lead") :
                  /\ Reply(p, 1) = "ok"
                  /\ IF push[p].total = 0
                     THEN \E j \in Places(p, "contact") : j < i /\ Reply(p, j) = "ok"
                     ELSE /\ push[p].total >= 1
                          /\ \E j \in Places(p, "lookup") : j < i

C18_Witness ==
    /\ call[1].pc = "done" /\ Len(CallRequests(1)) = 1
    /\ call[1].status_response = "idle"
    /\ push[1].pc = "done" /\ push[1].total = 0
    /\ Places(1, "contact") = {2} /\ Places(1, "lead") = {3}

(***************************************************************************)
(* Properties of parse_json (checked under FlatSpec)                       *)
(***************************************************************************)
\* the path of a child: keys joined by ".", indices appended as "[i]"
ChildPath(node, path, i) ==
    IF node.k = "list" THEN path \o <<"[", ToString(i - 1), "]">>
    ELSE IF path = <<>> THEN node.items[i].key
    ELSE path \o <<".">> \o node.items[i].key
Child(node, i) == IF node.k = "list" THEN node.items[i] ELSE node.items[i].val

\* the scalar leaves of a structure, each with the path of its position
RECURSIVE LeafSet(_, _)
LeafSet(node, path) ==
    IF node.k = "leaf" THEN {<<path, node.v>>}
    ELSE UNION {LeafSet(Child(node, i), ChildPath(node, path, i)) : i \in 1..Len(node.items)}

RECURSIVE LeafCount(_)
RECURSIVE LeafCountFrom(_, _)
LeafCount(node) == IF node.k = "leaf" THEN 1 ELSE LeafCountFrom(node, 1)
LeafCountFrom(node, i) ==
    IF i > Len(node.items) THEN 0
    ELSE LeafCount(Child(node, i)) + LeafCountFrom(node, i + 1)

\* every leaf is in the result under its path, and the result has one entry a leaf
EveryLeafOnce(doc, out) ==
    /\ \A leaf \in LeafSet(doc, <<>>) : leaf[1] \in DOMAIN out /\ out[leaf[1]] = leaf[2]
    /\ Cardinality(DOMAIN out) = LeafCount(doc)

\* C13: for every nested structure parse_json returns a mapping that holds
\* every scalar leaf exactly once, under the path of its position; no two
\* leaves share a path, so there are as many entries as leaves.
C13_EveryLeafOnce == flat.pc \in {"flat", "again"} => EveryLeafOnce(flat.doc, flat.out)

\* a key is a non-empty string that holds neither "." nor "["
PlainKey(key) == Len(key) = 1 /\ key[1] \notin {".", "[", "]"}
RECURSIVE PlainDoc(_)
PlainDoc(node) ==
    \A i \in 1..Len(node.items) :
        /\ node.k = "dict" => PlainKey(node.items[i].key)
        /\ PlainDoc(Child(node, i))

\* C13, amended: the same, for the structures whose mapping keys are
\* non-empty strings that hold neither "." nor "[".
C13_EveryLeafOncePlainKeys ==
    (flat.pc \in {"flat", "again"} /\ PlainDoc(flat.doc))
    => EveryLeafOnce(flat.doc, flat.out)

\* a mapping that holds a mapping and a sequence: two leaves, two entries
C13_Witness ==
    /\ flat.pc = "flat" /\ PlainDoc(flat.doc)
    /\ flat.doc.k = "dict" /\ Len(flat.doc.items) = 2
    /\ flat.doc.items[1].val.k = "dict" /\ flat.doc.items[2].val.k = "list"
    /\ LeafCount(flat.doc) = 2
    /\ Cardinality(DOMAIN flat.out) = 2

\* a mapping whose values are all scalars
IsFlat(node) ==
    node.k = "dict" /\ \A i \in 1..Len(node.items) : node.items[i].val.k = "leaf"

\* C14: parse_json returns a flat mapping as it is, so flattening the result
\* of parse_json again changes nothing.
C14_Idempotent ==
    /\ (flat.pc \in {"flat", "again"} /\ IsFlat(flat.doc))
       => /\ DOMAIN flat.out = {flat.doc.items[i].key : i \in 1..Len(flat.doc.items)}
          /\ \A i \in 1..Len(flat.doc.items) :
                 flat.out[flat.doc.items[i].key] = flat.doc.items[i].val.v
    /\ flat.pc = "again" => flat.again = flat.out

\* a nested input, whose result with composed paths is flattened again
C14_Witness ==
    /\ flat.pc = "again" /\ flat.again = flat.out
    /\ ~IsFlat(flat.doc)
    /\ Cardinality(DOMAIN flat.out) = 2
    /\ \E key \in DOMAIN flat.out : Len(key) > 1

====
